---- MODULE Spec2Model ----
(***************************************************************************)
(* Worker pool, identity rotation controller and orchestrator of the      *)
(* judicial-form scraper (worker.py, app.py, expressvpn.py), as a state   *)
(* machine over the asyncio event loop.  Every action is the code a task  *)
(* runs between two suspension points; asyncio.Queue and asyncio.Event    *)
(* are modelled by what their methods do to their waiters.                *)
(***************************************************************************)
EXTENDS Integers, Sequences, FiniteSets, TLC

\* ---------------------------------------------------------------- bounds
MaxFailures == 3
MaxConnectFails == 1
MaxRange == 2
MaxLaunched == 2
MaxGenRange == 3
MaxRecords == 1
MaxDenominator == 5
MaxRespawns == 2
MaxFormFailures == 2

\* ---------------------------------------------------------------- inputs
NoDoc == <<>>
SmallPool == 2
DefaultPool == 5
Ratios == {<<1, 2>>, <<1, 1>>}
RatioExample == <<3, 5>>
Inputs == [document_number_start |-> 100, since |-> 2020, until |-> 2020]
GenStarts == {0, 9, 100}
GenYears == {2020, 2021}
FormRatios == {<<0, 1>>, <<1, 2>>}

VARIABLES
    conf,                    \* [num_workers, threshold, document_range]
    input_queue,             \* asyncio.Queue of (document_number, year)
    cancelled_workers_queue, \* asyncio.Queue[bool], its length
    sync_workers_event,      \* asyncio.Event, the gate
    progress_bar_event,      \* asyncio.Event of the progress task
    num_workers,             \* worker.py _num_workers
    mpc,                     \* main: position
    wpc,                     \* worker: position
    document,                \* worker: (document_number, year) or NoDoc
    task_done,               \* worker: None / False / True
    browser,                 \* worker: None / open / closed
    cancelReq,               \* workers with an undelivered task.cancel()
    cpc, count, threshold,   \* sync_workers: position and locals
    cCancel,                 \* sync_workers has an undelivered cancel
    ppc, progSteps, pCancel, \* progress_bar: position, steps done, cancel
    rotating,                \* rotate_vpn calls in progress, per caller
    running,                 \* task that holds the event loop, or "none"
    connectFails,            \* failed connect attempts so far
    settled,                 \* history: successful settles per item
    unsettled,               \* history: get() completed minus task_done()
                             \*          calls, per worker
    requeued,                \* history: puts by the cancellation handler
    cancelledAt,             \* history: where the cancellation found the worker
    failures,                \* history: failed scrapes
    ctlRotations,            \* history: rotations begun by sync_workers
    rotReleased,             \* history: released after a rotation, still at the gate
    caughtAt,                \* history: line of the except clause the step
                             \*          just taken entered, else 0
    gen,                     \* main: inputs and position of the loops of lines 94-96
    recorded,                \* history: items with a record in the output file
    staleSignals,            \* history: failure signals queued before the last reset
    run_form                 \* run_form.py: the state of its queues and tasks

vars == <<conf, input_queue, cancelled_workers_queue, sync_workers_event,
          progress_bar_event, num_workers, mpc, wpc, document, task_done,
          browser, cancelReq, cpc, count, threshold, cCancel, ppc, progSteps,
          pCancel, rotating, running, connectFails, settled, unsettled,
          requeued, cancelledAt, failures, ctlRotations, rotReleased,
          caughtAt, gen, recorded, staleSignals, run_form>>

Workers == 1..conf.num_workers

\* ------------------------------------------------------- app.py: generator
\* str(n): the decimal text of an int, as a sequence of characters
RECURSIVE Digits(_)
Digits(n) ==
    LET c == <<"0", "1", "2", "3", "4", "5", "6", "7", "8", "9">>[(n % 10) + 1]
    IN IF n < 10 THEN <<c>> ELSE Append(Digits(n \div 10), c)

Str(n) == IF n < 0 THEN <<"-">> \o Digits(-n) ELSE Digits(n)

\* (str(document_number_start + i), str(year))  (line 96)
Item(start, i, year) == <<Str(start + i), Str(year)>>

RECURSIVE Offsets(_, _, _)
Offsets(start, year, n) ==
    IF n = 0 THEN <<>>
    ELSE Append(Offsets(start, year, n - 1), Item(start, n - 1, year))

RECURSIVE Generate(_, _, _, _)
Generate(start, range, since, now) ==
    IF now < since THEN <<>>
    ELSE Generate(start, range, since, now - 1) \o Offsets(start, now, range)

Items == {Item(Inputs.document_number_start, i, y) :
              i \in 0..(MaxRange - 1), y \in Inputs.since..Inputs.until}

\* the loops of lines 94-96, one put_nowait at a time
\* (mutant: the loop over the offsets is the outer one)
GenNextOffsetMajor(g) ==
    IF g.year < g.now
    THEN [g EXCEPT !.year = @ + 1]
    ELSE [g EXCEPT !.year = g.since, !.i = @ + 1]

\* the position after the put_nowait at position g
GenNext(g) ==
    IF g.i + 1 < g.range
    THEN [g EXCEPT !.i = @ + 1]
    ELSE [g EXCEPT !.year = @ + 1, !.i = 0]

\* the loops have a put_nowait left to do
GenRunning(g) == g.year <= g.now /\ g.i < g.range

GenStart(start, range, since, now) ==
    [start |-> start, range |-> range, since |-> since, now |-> now,
     year |-> since, i |-> 0]

\* the position at which the loops are left
GenEnd(start, range, since, now) ==
    [start |-> start, range |-> range, since |-> since, now |-> now,
     year |-> IF range > 0 /\ since <= now THEN now + 1 ELSE since,
     i |-> 0]

Steps == conf.document_range * (Inputs.until - Inputs.since + 1)

\* ------------------------------------------------------ math.ceil(n * r)
\* (mutant: one more than the floor, also when n * r is whole)
CeilAbove(n, r) == (n * r[1]) \div r[2] + 1

Ceil(n, r) == (n * r[1] + r[2] - 1) \div r[2]

\* the ratios k/d of [0, 1] with a denominator up to MaxDenominator
UnitRatios ==
    {r \in (0..MaxDenominator) \X (1..MaxDenominator) : r[1] <= r[2]}

\* ------------------------------------------------------ asyncio.Queue
RECURSIVE WakeupNext(_, _)
WakeupNext(q, cancelled) ==
    IF q.getters = <<>> THEN q
    ELSE LET w == Head(q.getters) IN
         IF w \in cancelled
         THEN WakeupNext([q EXCEPT !.getters = Tail(@)], cancelled)
         ELSE [q EXCEPT !.getters = Tail(@), !.ready = @ \cup {w}]

PutNowait(q, item, cancelled) ==
    WakeupNext([q EXCEPT !.items = Append(@, item),
                         !.unfinished = @ + 1], cancelled)

TaskDoneRaises(q) == q.unfinished <= 0

TaskDone(q) ==
    [q EXCEPT !.unfinished = @ - 1,
              !.joiner = IF q.unfinished = 1 /\ @ = "waiting"
                         THEN "woken" ELSE @]

Count(s, x) == Cardinality({i \in 1..Len(s) : s[i] = x})


\* ------------------------------------------------- run_form.py: pipeline
\* every variable but run_form
appVars == <<conf, input_queue, cancelled_workers_queue, sync_workers_event,
             progress_bar_event, num_workers, mpc, wpc, document, task_done,
             browser, cancelReq, cpc, count, threshold, cCancel, ppc,
             progSteps, pCancel, rotating, running, connectFails, settled,
             unsettled, requeued, cancelledAt, failures, ctlRotations,
             rotReleased, caughtAt, gen, recorded, staleSignals>>

\* (str(document_number_start + i), str(year), output_file)  (lines 377-379)
FormItem(start, i, year) == <<Str(start + i), Str(year), "output.csv">>

RECURSIVE FormOffsets(_, _, _)
FormOffsets(start, year, n) ==
    IF n = 0 THEN <<>>
    ELSE Append(FormOffsets(start, year, n - 1), FormItem(start, n - 1, year))

\* the loops of lines 375-379
RECURSIVE FormGenerate(_, _, _, _)
FormGenerate(start, range, since, now) ==
    IF now < since THEN <<>>
    ELSE FormGenerate(start, range, since, now - 1)
             \o FormOffsets(start, now, range)

FormItems == {FormItem(Inputs.document_number_start, i, y) :
                  i \in 0..(MaxRange - 1), y \in Inputs.since..Inputs.until}

\* main suspended in incoming_queue.join() (line 415): the queue is filled,
\* respawn_workers, the workers and the progress bar are created, in this
\* order, and none of them has run yet
FormStart(n, r, range) ==
    LET items == FormGenerate(Inputs.document_number_start, range,
                              Inputs.since, Inputs.until)
    IN [incoming_queue |-> [items |-> items, unfinished |-> Len(items),
                            joiner |-> "waiting"],
        cancelled_workers_queue |-> [items |-> 0, unfinished |-> 0],
        progress_bar_queue |-> [items |-> 0, unfinished |-> 0,
                                joiner |-> "none"],
        workers |-> [k \in 1..n |-> "new"],
        held |-> [k \in 1..n |-> NoDoc],
        cancelReq |-> {},
        generation |-> 0,
        count |-> 0,
        threshold |-> 0,
        respawn |-> "new",
        rCancel |-> FALSE,
        progress |-> "new",
        steps |-> 0,
        document_range |-> range,
        total |-> range * (Inputs.until - Inputs.since + 1),
        main |-> "join_incoming",
        num_workers |-> n,
        ratio |-> r,
        settled |-> [i \in FormItems |-> 0],
        consumed |-> 0,
        failures |-> 0]

FormSlots == DOMAIN run_form.workers

FormOver(pc) == pc \in {"cancelled", "failed"}

FormLive(rf) == {k \in DOMAIN rf.workers : ~FormOver(rf.workers[k])}

FormMin(a, b) == IF a < b THEN a ELSE b

\* await incoming_queue.get() at the top of the worker's loop  (line 136)
FormGet(rf, k) ==
    IF rf.incoming_queue.items = <<>>
    THEN [rf EXCEPT !.workers[k] = "get"]
    ELSE [rf EXCEPT !.incoming_queue.items = Tail(@),
                    !.held[k] = Head(rf.incoming_queue.items),
                    !.workers[k] = "scrape"]

\* "while count > threshold: await cancelled_workers_queue.get(); count -= 1"
\* up to the next suspension, then the cancel() calls and the gather
\* (lines 306-311)
RespawnLoop(rf) ==
    LET over == IF rf.count > rf.threshold
                THEN rf.count - rf.threshold ELSE 0
        take == FormMin(rf.cancelled_workers_queue.items, over)
        c == rf.count - take
        rf1 == [rf EXCEPT !.count = c,
                          !.cancelled_workers_queue.items = @ - take,
                          !.consumed = @ + take]
    IN IF c > rf.threshold
       THEN [rf1 EXCEPT !.respawn = "get"]
       ELSE [rf1 EXCEPT !.respawn = "gather",
                        !.cancelReq = FormLive(rf)]

\* the first step of respawn_workers  (lines 302-307)
FormRespawnStart ==
    /\ run_form.respawn = "new"
    /\ ~run_form.rCancel
    /\ run_form' =
           RespawnLoop([run_form EXCEPT
               !.count = run_form.num_workers,
               !.threshold = Ceil(run_form.num_workers, run_form.ratio)])
    /\ UNCHANGED appVars

\* cancelled_workers_queue.get() returns a signal  (lines 307-308)
FormRespawnGetResume ==
    /\ run_form.respawn = "get"
    /\ ~run_form.rCancel
    /\ run_form.cancelled_workers_queue.items > 0
    /\ run_form' = RespawnLoop(run_form)
    /\ UNCHANGED appVars

\* the gather of line 311 returns: rotate_VPN, the new workers, and the
\* loop again  (lines 312-320, then 305-311); no statement assigns count
FormRespawnGathered ==
    /\ run_form.respawn = "gather"
    /\ ~run_form.rCancel
    /\ run_form.generation < MaxRespawns
    /\ \A k \in FormSlots : FormOver(run_form.workers[k])
    /\ run_form' =
           RespawnLoop([run_form EXCEPT
               !.generation = @ + 1,
               !.workers = [k \in FormSlots |-> "new"],
               !.held = [k \in FormSlots |-> NoDoc],
               !.cancelReq = {},
               !.consumed = 0])
    /\ UNCHANGED appVars

\* main's cancel() reaches respawn_workers
FormRespawnCancelled ==
    /\ run_form.rCancel
    /\ run_form' = [run_form EXCEPT !.respawn = "cancelled",
                                    !.rCancel = FALSE]
    /\ UNCHANGED appVars

\* the first step of a worker
FormWorkerStart(k) ==
    /\ run_form.workers[k] = "new"
    /\ k \notin run_form.cancelReq
    /\ run_form.respawn # "new"
    /\ run_form' = FormGet(run_form, k)
    /\ UNCHANGED appVars

\* the scrape steps completed: progress_bar_queue.put(True),
\* incoming_queue.task_done(), the browser is closed in the finally clause
\* and the loop goes round  (lines 274-275, 282-285, 136)
FormWorkerScrapeOk(k) ==
    /\ run_form.workers[k] = "scrape"
    /\ k \notin run_form.cancelReq
    /\ LET rf == run_form
           i == rf.held[k]
           left == rf.incoming_queue.unfinished - 1
       IN run_form' =
              FormGet([rf EXCEPT
                  !.progress_bar_queue.items = @ + 1,
                  !.progress_bar_queue.unfinished = @ + 1,
                  !.incoming_queue.unfinished = left,
                  !.incoming_queue.joiner =
                      IF left = 0 /\ @ = "waiting" THEN "woken" ELSE @,
                  !.settled[i] = @ + 1], k)
    /\ UNCHANGED appVars

\* a scrape step raised TimeoutError: await browser.close()  (lines 277-279)
FormWorkerTimeout(k) ==
    /\ run_form.workers[k] = "scrape"
    /\ k \notin run_form.cancelReq
    /\ run_form.failures < MaxFormFailures
    /\ run_form' = [run_form EXCEPT !.workers[k] = "closing",
                                    !.failures = @ + 1]
    /\ UNCHANGED appVars

\* the browser is closed: cancelled_workers_queue.put(True) and
\* asyncio.sleep(.5)  (lines 280-281); the handler neither puts the item
\* back nor calls incoming_queue.task_done()
FormWorkerClosed(k) ==
    /\ run_form.workers[k] = "closing"
    /\ k \notin run_form.cancelReq
    /\ run_form' =
           [run_form EXCEPT
               !.workers[k] = "sleep",
               !.cancelled_workers_queue.items = @ + 1,
               !.cancelled_workers_queue.unfinished = @ + 1]
    /\ UNCHANGED appVars

\* the sleep is over: the finally clause finds the browser closed and the
\* loop goes round  (lines 282-285, 136)
FormWorkerSlept(k) ==
    /\ run_form.workers[k] = "sleep"
    /\ k \notin run_form.cancelReq
    /\ run_form' = FormGet(run_form, k)
    /\ UNCHANGED appVars

\* new_context, goto or a scrape step raised another error: no except
\* clause catches it, the finally clause awaits browser.close()
FormWorkerError(k) ==
    /\ run_form.workers[k] = "scrape"
    /\ k \notin run_form.cancelReq
    /\ run_form.failures < MaxFormFailures
    /\ run_form' = [run_form EXCEPT !.workers[k] = "finally_failed",
                                    !.failures = @ + 1]
    /\ UNCHANGED appVars

\* CancelledError is raised at the await the worker is suspended on
FormWorkerCancelled(k) ==
    /\ k \in run_form.cancelReq
    /\ run_form.workers[k] \in {"new", "get", "scrape", "closing", "sleep"}
    /\ run_form' =
           [run_form EXCEPT
               !.cancelReq = @ \ {k},
               !.workers[k] = IF @ \in {"scrape", "closing"}
                              THEN "finally_cancelled" ELSE "cancelled"]
    /\ UNCHANGED appVars

\* browser.close() of the finally clause returned: the task ends
FormWorkerFinalized(k) ==
    /\ run_form.workers[k] \in {"finally_failed", "finally_cancelled"}
    /\ run_form' =
           [run_form EXCEPT
               !.cancelReq = @ \ {k},
               !.workers[k] = IF @ = "finally_failed"
                              THEN "failed" ELSE "cancelled"]
    /\ UNCHANGED appVars

\* "for _ in track(range(steps)): await queue.get(); queue.task_done()" up
\* to the next suspension  (lines 288-291)
FormProgressLoop(rf) ==
    LET take == FormMin(rf.progress_bar_queue.items, rf.total - rf.steps)
        left == rf.progress_bar_queue.unfinished - take
    IN [rf EXCEPT
           !.progress_bar_queue.items = @ - take,
           !.progress_bar_queue.unfinished = left,
           !.progress_bar_queue.joiner =
               IF left = 0 /\ @ = "waiting" THEN "woken" ELSE @,
           !.steps = @ + take,
           !.progress = IF rf.steps + take = rf.total
                        THEN "finished" ELSE "get"]

FormProgressStart ==
    /\ run_form.progress = "new"
    /\ \A k \in FormSlots : run_form.workers[k] # "new"
    /\ run_form' = FormProgressLoop(run_form)
    /\ UNCHANGED appVars

FormProgressResume ==
    /\ run_form.progress = "get"
    /\ run_form.progress_bar_queue.items > 0
    /\ run_form' = FormProgressLoop(run_form)
    /\ UNCHANGED appVars

\* "for task in tasks: task.cancel()" and the gather  (lines 419-423):
\* tasks holds respawn_workers, the workers main created and the progress
\* bar, not the workers respawn_workers created; the progress bar has run
\* its steps by then, so that its cancel() does nothing
FormCancelTasks(rf) ==
    [rf EXCEPT !.main = "gather",
               !.cancelReq = IF rf.generation = 0 THEN FormLive(rf) ELSE @,
               !.rCancel = TRUE]

\* the joins of lines 416-417, from the return of the first join
FormJoinRest(rf) ==
    IF rf.cancelled_workers_queue.unfinished > 0
    THEN \* no task ever calls cancelled_workers_queue.task_done()
         [rf EXCEPT !.main = "join_cancelled"]
    ELSE IF rf.progress_bar_queue.unfinished > 0
    THEN [rf EXCEPT !.main = "join_progress",
                    !.progress_bar_queue.joiner = "waiting"]
    ELSE FormCancelTasks(rf)

\* incoming_queue.join() returns  (line 415)
FormMainIncomingJoined ==
    /\ run_form.main = "join_incoming"
    /\ run_form.incoming_queue.joiner = "woken"
    /\ run_form' =
           FormJoinRest([run_form EXCEPT !.incoming_queue.joiner = "none"])
    /\ UNCHANGED appVars

\* progress_bar_queue.join() returns  (line 417)
FormMainProgressJoined ==
    /\ run_form.main = "join_progress"
    /\ run_form.progress_bar_queue.joiner = "woken"
    /\ run_form' =
           FormCancelTasks([run_form EXCEPT
               !.progress_bar_queue.joiner = "none"])
    /\ UNCHANGED appVars

\* the gather of line 423 returns, terminate_VPN  (lines 423-424)
FormMainDone ==
    /\ run_form.main = "gather"
    /\ run_form.respawn = "cancelled"
    /\ run_form.progress = "finished"
    /\ run_form.generation = 0 =>
           \A k \in FormSlots : FormOver(run_form.workers[k])
    /\ run_form' = [run_form EXCEPT !.main = "done"]
    /\ UNCHANGED appVars

\* ------------------------------------------------------ initial states
\* what main has constructed besides the input queue
InitTasks(n, r, range) ==
    /\ conf = [num_workers |-> n, threshold |-> r, document_range |-> range]
    /\ cancelled_workers_queue = 0
    /\ sync_workers_event = [value |-> FALSE, waiters |-> {}, woken |-> {}]
    /\ progress_bar_event = [value |-> FALSE, woken |-> FALSE]
    /\ num_workers = 0
    /\ wpc = [w \in 1..n |-> "none"]
    /\ document = [w \in 1..n |-> NoDoc]
    /\ task_done = [w \in 1..n |-> "None"]
    /\ browser = [w \in 1..n |-> "None"]
    /\ cancelReq = {}
    /\ cpc = "none" /\ count = 0 /\ threshold = 0 /\ cCancel = FALSE
    /\ ppc = "none" /\ progSteps = 0 /\ pCancel = FALSE
    /\ rotating = [main |-> 0, ctl |-> 0]
    /\ running = "none"
    /\ connectFails = 0
    /\ settled = [i \in Items |-> 0]
    /\ unsettled = [w \in 1..n |-> 0]
    /\ requeued = [w \in 1..n |-> 0]
    /\ cancelledAt = [w \in 1..n |-> "none"]
    /\ failures = 0
    /\ ctlRotations = 0
    /\ rotReleased = {}
    /\ caughtAt = 0
    /\ recorded = {}
    /\ staleSignals = 0
    /\ run_form = FormStart(n, r, range)

\* main at line 98, the queue filled by the loops of lines 94-96
InitWith(n, r, range) ==
    /\ InitTasks(n, r, range)
    /\ LET items == Generate(Inputs.document_number_start, range,
                             Inputs.since, Inputs.until)
       IN input_queue = [items |-> items, unfinished |-> Len(items),
                         getters |-> <<>>, ready |-> {}, joiner |-> "none"]
    /\ mpc = "start"
    /\ gen = GenEnd(Inputs.document_number_start, range, Inputs.since,
                    Inputs.until)

Init == \E r \in Ratios, range \in 1..MaxRange : InitWith(SmallPool, r, range)

InitExample == InitWith(DefaultPool, RatioExample, 1)

\* two document numbers (document_number_range = 2) and a threshold ratio
\* of 1.0
InitTwoDocuments == InitWith(SmallPool, <<1, 1>>, MaxRange)

\* main at line 94, before the loops, for each input of the generator
InitGenerator ==
    \E start \in GenStarts, range \in 0..MaxGenRange,
       since \in GenYears, now \in GenYears :
        /\ InitTasks(SmallPool, RatioExample, range)
        /\ input_queue = [items |-> <<>>, unfinished |-> 0,
                          getters |-> <<>>, ready |-> {}, joiner |-> "none"]
        /\ mpc = "gen"
        /\ gen = GenStart(start, range, since, now)

\* input_queue.put_nowait((str(document_number_start + i), str(year)))
GenPut ==
    /\ mpc = "gen"
    /\ GenRunning(gen)
    /\ input_queue' = PutNowait(input_queue,
                                Item(gen.start, gen.i, gen.year), {})
    /\ gen' = GenNext(gen)
    /\ UNCHANGED <<conf, cancelled_workers_queue, sync_workers_event,
                   progress_bar_event, num_workers, mpc, wpc, document,
                   task_done, browser, cancelReq, cpc, count, threshold,
                   cCancel, ppc, progSteps, pCancel, rotating, running,
                   connectFails, settled, unsettled, requeued, cancelledAt,
                   failures, ctlRotations, rotReleased, caughtAt, recorded,
                   staleSignals, run_form>>

\* both loops are over: main goes on to line 98
GenDone ==
    /\ mpc = "gen"
    /\ ~GenRunning(gen)
    /\ mpc' = "start"
    /\ UNCHANGED <<conf, input_queue, cancelled_workers_queue,
                   sync_workers_event, progress_bar_event, num_workers, wpc,
                   document, task_done, browser, cancelReq, cpc, count,
                   threshold, cCancel, ppc, progSteps, pCancel, rotating,
                   running, connectFails, settled, unsettled, requeued,
                   cancelledAt, failures, ctlRotations, rotReleased, caughtAt,
                   gen, recorded, staleSignals, run_form>>

\* ------------------------------------------- expressvpn.py: rotate_vpn
\* (mutant: connect and the five seconds' wait are awaited)
RotateVpnAwaits == TRUE

\* rotate_vpn has no await: connect() and time.sleep(5) run on the loop's
\* thread, so the caller keeps the event loop until the call returns.
RotateVpnSuspends == FALSE

LoopFree == RotateVpnSuspends \/ running = "none"

MayStep(t) == LoopFree \/ running = t

\* (mutant: rotate_vpn gives up at the first failed connect and raises)
RetriesNever(n) == FALSE

\* "while not passed": after the n-th failed connect of the run the loop
\* goes round again, whatever n is  (lines 27, 34-36)
Retries(n) == TRUE

\* connect() raised: the except clause logs, makes a new ExpressVpnApi and
\* the loop tries again
ConnectFail(t) ==
    /\ rotating[t] > 0
    /\ MayStep(t)
    /\ connectFails < MaxConnectFails
    /\ connectFails' = connectFails + 1
    /\ IF Retries(connectFails + 1)
       THEN UNCHANGED <<rotating, running, mpc, cpc>>
       ELSE \* the exception leaves rotate_vpn and ends the caller
            /\ rotating' = [rotating EXCEPT ![t] = @ - 1]
            /\ running' = "none"
            /\ mpc' = IF t = "main" THEN "raised" ELSE mpc
            /\ cpc' = IF t = "ctl" THEN "term" ELSE cpc
    /\ caughtAt' = 0
    /\ UNCHANGED <<conf, input_queue, cancelled_workers_queue,
                   sync_workers_event, progress_bar_event, num_workers, wpc,
                   document, task_done, browser, cancelReq, count, threshold,
                   cCancel, ppc, progSteps, pCancel, settled, unsettled,
                   requeued, cancelledAt, failures, ctlRotations, rotReleased,
                   gen, recorded, staleSignals, run_form>>

\* ------------------------------------------------------ app.py: main
AddWorker(n) == n + 1

RECURSIVE Registered(_, _)
Registered(n, k) == IF k = 0 THEN n ELSE AddWorker(Registered(n, k - 1))

\* (mutant: the tasks are created before the first rotation is awaited)
CreatesTasksBeforeRotation(pc) == pc = "start"

\* the loop of lines 102-111 and the create_task calls of lines 114 and
\* 126 come after "await vpn_api.rotate_vpn()" of line 99
CreatesTasks(pc) == pc = "rot"

\* add_worker for each of conf.num_workers, then the controller and the
\* progress bar  (lines 101-132)
StartTasks(pc) ==
    IF CreatesTasks(pc)
    THEN /\ num_workers' = Registered(num_workers, conf.num_workers)
         /\ wpc' = [w \in Workers |-> "new"]
         /\ cpc' = "new"
         /\ ppc' = "new"
    ELSE UNCHANGED <<num_workers, wpc, cpc, ppc>>

\* await vpn_api.rotate_vpn()  (line 99)
MainRotate ==
    /\ mpc = "start"
    /\ LoopFree
    /\ mpc' = "rot"
    /\ rotating' = [rotating EXCEPT !.main = @ + 1]
    /\ running' = "main"
    /\ StartTasks(mpc)
    /\ caughtAt' = 0
    /\ UNCHANGED <<conf, input_queue, cancelled_workers_queue,
                   sync_workers_event, progress_bar_event, document,
                   task_done, browser, cancelReq, count, threshold, cCancel,
                   progSteps, pCancel, connectFails, settled, unsettled,
                   requeued, cancelledAt, failures, ctlRotations, rotReleased,
                   gen, recorded, staleSignals, run_form>>

\* the first rotation returns; lines 101-135 run without suspension
MainConnectOk ==
    /\ mpc = "rot"
    /\ rotating.main > 0
    /\ MayStep("main")
    /\ rotating' = [rotating EXCEPT !.main = @ - 1]
    /\ running' = "none"
    /\ StartTasks(mpc)
    /\ IF input_queue.unfinished > 0
       THEN /\ mpc' = "join"
            /\ input_queue' = [input_queue EXCEPT !.joiner = "waiting"]
            /\ UNCHANGED <<cancelReq, cCancel, pCancel>>
       ELSE /\ mpc' = "gather"
            /\ cancelReq' = Workers
            /\ cCancel' = TRUE
            /\ pCancel' = TRUE
            /\ UNCHANGED input_queue
    /\ caughtAt' = 0
    /\ UNCHANGED <<conf, cancelled_workers_queue, sync_workers_event,
                   progress_bar_event, document, task_done, browser, count,
                   threshold, progSteps, connectFails, settled, unsettled,
                   requeued, cancelledAt, failures, ctlRotations, rotReleased,
                   gen, recorded, staleSignals, run_form>>

WorkerOver(w) == wpc[w] \in {"term", "crashed"}

\* input_queue.join() returned: cancel every task (lines 137-138)
MainJoinReturn ==
    /\ mpc = "join"
    /\ input_queue.joiner = "woken"
    /\ LoopFree
    /\ mpc' = "gather"
    /\ input_queue' = [input_queue EXCEPT !.joiner = "none"]
    /\ cancelReq' = {w \in Workers : ~WorkerOver(w)}
    /\ cCancel' = (cpc # "term")
    /\ pCancel' = (ppc \notin {"term", "finished"})
    /\ caughtAt' = 0
    /\ UNCHANGED <<conf, cancelled_workers_queue, sync_workers_event,
                   progress_bar_event, num_workers, wpc, document, task_done,
                   browser, cpc, count, threshold, ppc, progSteps, rotating,
                   running, connectFails, settled, unsettled, requeued,
                   cancelledAt, failures, ctlRotations, rotReleased, gen,
                   recorded, staleSignals, run_form>>

\* (mutant: gather without return_exceptions)
ReturnExceptionsOff == FALSE

\* asyncio.gather(*tasks, return_exceptions=True)  (line 141)
ReturnExceptions == TRUE

\* the task ended with an exception (CancelledError or another one)
WorkerRaised(w) == WorkerOver(w)

TasksOver ==
    /\ \A w \in Workers : WorkerOver(w)
    /\ cpc = "term"
    /\ ppc \in {"term", "finished"}

\* gather returns when every task is over, or, without return_exceptions,
\* raises the first exception a task ended with
MainDone ==
    /\ mpc = "gather"
    /\ LoopFree
    /\ IF ReturnExceptions
       THEN /\ TasksOver
            /\ mpc' = "done"
       ELSE /\ \/ \E w \in Workers : WorkerRaised(w)
               \/ cpc = "term"
               \/ ppc = "term"
            /\ mpc' = "raised"
    /\ caughtAt' = 0
    /\ UNCHANGED <<conf, input_queue, cancelled_workers_queue,
                   sync_workers_event, progress_bar_event, num_workers, wpc,
                   document, task_done, browser, cancelReq, cpc, count,
                   threshold, cCancel, ppc, progSteps, pCancel, rotating,
                   running, connectFails, settled, unsettled, requeued,
                   cancelledAt, failures, ctlRotations, rotReleased, gen,
                   recorded, staleSignals, run_form>>

\* ------------------------------------------------ worker.py: sync_workers
\* (mutant: the strict test)
CtlKeepPollingStrict(c, t) == c > t

\* while count >= threshold  (line 54)
CtlKeepPolling(c, t) == c >= t

\* (mutant: the pulse releases one waiter only)
PulseOne(ev, cancelled) ==
    LET free == ev.waiters \ cancelled
        one == IF free = {} THEN {} ELSE {CHOOSE w \in free : TRUE}
    IN [value |-> FALSE,
        waiters |-> ev.waiters \ one,
        woken |-> ev.woken \cup one]

\* (mutant: set() without clear(), the gate stays open)
PulseStaysSet(ev, cancelled) ==
    [value |-> TRUE,
     waiters |-> ev.waiters \cap cancelled,
     woken |-> ev.woken \cup (ev.waiters \ cancelled)]

\* sync_workers_event.set(); sync_workers_event.clear()  (lines 55-56)
Pulse(ev, cancelled) ==
    [value |-> FALSE,
     waiters |-> ev.waiters \cap cancelled,
     woken |-> ev.woken \cup (ev.waiters \ cancelled)]

\* (mutant: the rotation is started but not awaited)
CtlRotateCallDetached(rot) ==
    /\ rotating' = [rot EXCEPT !.ctl = @ + 1]
    /\ running' = "none"
    /\ cpc' = "sleep"
    /\ ctlRotations' = ctlRotations + 1

\* await vpn_api.rotate_vpn()  (line 66)
CtlRotateCall(rot) ==
    /\ rotating' = [rot EXCEPT !.ctl = @ + 1]
    /\ running' = "ctl"
    /\ cpc' = "rot"
    /\ ctlRotations' = ctlRotations + 1

\* the body of "while True" from the loop test to the next suspension
CtlIterate(c, t, rot) ==
    IF CtlKeepPolling(c, t)
    THEN /\ sync_workers_event' = Pulse(sync_workers_event, cancelReq)
         /\ IF cancelled_workers_queue > 0
            THEN /\ count' = c - 1
                 /\ cancelled_workers_queue' = cancelled_workers_queue - 1
                 /\ staleSignals' = IF staleSignals > 0 THEN staleSignals - 1
                                    ELSE 0
            ELSE /\ count' = c
                 /\ UNCHANGED <<cancelled_workers_queue, staleSignals>>
         /\ threshold' = t
         /\ cpc' = "sleep"
         /\ rotating' = rot
         /\ running' = "none"
         /\ UNCHANGED ctlRotations
    ELSE /\ count' = num_workers
         /\ threshold' = Ceil(num_workers, conf.threshold)
         /\ CtlRotateCall(rot)
         /\ staleSignals' = cancelled_workers_queue
         /\ UNCHANGED <<sync_workers_event, cancelled_workers_queue>>

\* the first step of a task runs in the order the tasks were created
CtlStart ==
    /\ cpc = "new"
    /\ ~cCancel
    /\ LoopFree
    /\ \A w \in Workers : wpc[w] # "new"
    /\ CtlIterate(num_workers, Ceil(num_workers, conf.threshold), rotating)
    /\ caughtAt' = 0
    /\ UNCHANGED <<conf, input_queue, progress_bar_event, num_workers, mpc,
                   wpc, document, task_done, browser, cancelReq, cCancel, ppc,
                   progSteps, pCancel, connectFails, settled, unsettled,
                   requeued, cancelledAt, failures, rotReleased, gen,
                   recorded, run_form>>

\* asyncio.sleep(0.1) is over
CtlWake ==
    /\ cpc = "sleep"
    /\ ~cCancel
    /\ LoopFree
    /\ CtlIterate(count, threshold, rotating)
    /\ caughtAt' = 0
    /\ UNCHANGED <<conf, input_queue, progress_bar_event, num_workers, mpc,
                   wpc, document, task_done, browser, cancelReq, cCancel, ppc,
                   progSteps, pCancel, connectFails, settled, unsettled,
                   requeued, cancelledAt, failures, rotReleased, gen,
                   recorded, run_form>>

\* connect() succeeded: rotate_vpn returns into the loop of sync_workers
CtlConnectOk ==
    /\ rotating.ctl > 0
    /\ MayStep("ctl")
    /\ IF cpc = "rot"
       THEN /\ CtlIterate(count, threshold, [rotating EXCEPT !.ctl = @ - 1])
            /\ rotReleased' =
                   IF CtlKeepPolling(count, threshold)
                   THEN rotReleased \cup (sync_workers_event.waiters \ cancelReq)
                   ELSE rotReleased
       ELSE /\ rotating' = [rotating EXCEPT !.ctl = @ - 1]
            /\ UNCHANGED <<sync_workers_event, count, cancelled_workers_queue,
                           threshold, cpc, running, ctlRotations, rotReleased,
                           staleSignals>>
    /\ caughtAt' = 0
    /\ UNCHANGED <<conf, input_queue, progress_bar_event, num_workers, mpc,
                   wpc, document, task_done, browser, cancelReq, cCancel, ppc,
                   progSteps, pCancel, connectFails, settled, unsettled,
                   requeued, cancelledAt, failures, gen, recorded, run_form>>

\* CancelledError reaches sync_workers: it has no handler
\* (delivered after the workers', which were cancelled first)
CtlCancelled ==
    /\ cCancel
    /\ cpc \in {"new", "sleep", "rot"}
    /\ LoopFree
    /\ cancelReq = {}
    /\ cpc' = "term"
    /\ cCancel' = FALSE
    /\ rotating' = [rotating EXCEPT !.ctl = IF cpc = "rot" THEN @ - 1 ELSE @]
    /\ caughtAt' = 0
    /\ UNCHANGED <<conf, input_queue, cancelled_workers_queue,
                   sync_workers_event, progress_bar_event, num_workers, mpc,
                   wpc, document, task_done, browser, cancelReq, count,
                   threshold, ppc, progSteps, pCancel, running, connectFails,
                   settled, unsettled, requeued, cancelledAt, failures,
                   ctlRotations, rotReleased, gen, recorded, staleSignals,
                   run_form>>

\* --------------------------------------------------- app.py: progress_bar
\* progress_bar_event.set()  (worker.py line 222)
SetProgress(ev) ==
    [value |-> TRUE,
     woken |-> ev.woken \/ (~ev.value /\ ppc = "wait" /\ ~pCancel)]

\* for _ in track(range(steps)): await event.wait(); event.clear()
\* from iteration i with the event's value v, up to the next suspension
ProgressLoop(i, v) ==
    LET j == IF i < Steps /\ v THEN i + 1 ELSE i IN
    /\ progSteps' = j
    /\ progress_bar_event' = [value |-> IF i < Steps THEN FALSE ELSE v,
                              woken |-> FALSE]
    /\ ppc' = IF j >= Steps THEN "finished" ELSE "wait"

ProgressStart ==
    /\ ppc = "new"
    /\ ~pCancel
    /\ LoopFree
    /\ cpc # "new"
    /\ ProgressLoop(0, progress_bar_event.value)
    /\ caughtAt' = 0
    /\ UNCHANGED <<conf, input_queue, cancelled_workers_queue,
                   sync_workers_event, num_workers, mpc, wpc, document,
                   task_done, browser, cancelReq, cpc, count, threshold,
                   cCancel, pCancel, rotating, running, connectFails, settled,
                   unsettled, requeued, cancelledAt, failures, ctlRotations,
                   rotReleased, gen, recorded, staleSignals, run_form>>

ProgressResume ==
    /\ ppc = "wait"
    /\ progress_bar_event.woken
    /\ ~pCancel
    /\ LoopFree
    /\ ProgressLoop(progSteps, TRUE)
    /\ caughtAt' = 0
    /\ UNCHANGED <<conf, input_queue, cancelled_workers_queue,
                   sync_workers_event, num_workers, mpc, wpc, document,
                   task_done, browser, cancelReq, cpc, count, threshold,
                   cCancel, pCancel, rotating, running, connectFails, settled,
                   unsettled, requeued, cancelledAt, failures, ctlRotations,
                   rotReleased, gen, recorded, staleSignals, run_form>>

ProgressCancelled ==
    /\ pCancel
    /\ ppc \in {"new", "wait"}
    /\ LoopFree
    /\ progress_bar_event.woken \/ (cancelReq = {} /\ ~cCancel)
    /\ ppc' = "term"
    /\ pCancel' = FALSE
    /\ caughtAt' = 0
    /\ UNCHANGED <<conf, input_queue, cancelled_workers_queue,
                   sync_workers_event, progress_bar_event, num_workers, mpc,
                   wpc, document, task_done, browser, cancelReq, cpc, count,
                   threshold, cCancel, progSteps, rotating, running,
                   connectFails, settled, unsettled, requeued, cancelledAt,
                   failures, ctlRotations, rotReleased, gen, recorded,
                   staleSignals, run_form>>

\* ------------------------------------------------------ worker.py: worker
\* every task created by main has run up to its first suspension before
\* the loop handles the completion of any awaited call
AllStarted ==
    /\ \A w \in Workers : wpc[w] \notin {"none", "new"}
    /\ cpc \notin {"none", "new"}
    /\ ppc \notin {"none", "new"}

\* getters whose future was cancelled by task.cancel()
CancelledGetters == cancelReq \ input_queue.ready

\* w made d task_done() calls in this step
Account(w, d) == unsettled' = [unsettled EXCEPT ![w] = @ - d]

\* input_queue.get() on the queue value q  (line 88), in a step in which
\* w made d task_done() calls
Dequeue(w, q, d) ==
    IF q.items = <<>>
    THEN /\ input_queue' = [q EXCEPT !.getters = Append(@, w)]
         /\ wpc' = [wpc EXCEPT ![w] = "get"]
         /\ Account(w, d)
         /\ UNCHANGED document
    ELSE /\ input_queue' = [q EXCEPT !.items = Tail(@)]
         /\ wpc' = [wpc EXCEPT ![w] = "scrape"]
         /\ document' = [document EXCEPT ![w] = Head(q.items)]
         /\ Account(w, d - 1)

\* the top of the worker's loop, up to its next suspension  (lines 86-88)
NextIteration(w, q, d) ==
    /\ task_done' = [task_done EXCEPT ![w] = "False"]
    /\ IF sync_workers_event.value
       THEN /\ Dequeue(w, q, d)
            /\ UNCHANGED sync_workers_event
       ELSE /\ sync_workers_event' =
                   [sync_workers_event EXCEPT !.waiters = @ \cup {w}]
            /\ wpc' = [wpc EXCEPT ![w] = "gate"]
            /\ input_queue' = q
            /\ Account(w, d)
            /\ UNCHANGED document

\* the task's first step: async_playwright() and firefox.launch are awaited
WorkerStart(w) ==
    /\ wpc[w] = "new"
    /\ w \notin cancelReq
    /\ LoopFree
    /\ \A v \in Workers : v < w => wpc[v] # "new"
    /\ wpc' = [wpc EXCEPT ![w] = "launch"]
    /\ caughtAt' = 0
    /\ UNCHANGED <<conf, input_queue, cancelled_workers_queue,
                   sync_workers_event, progress_bar_event, num_workers, mpc,
                   document, task_done, browser, cancelReq, cpc, count,
                   threshold, cCancel, ppc, progSteps, pCancel, rotating,
                   running, connectFails, settled, unsettled, requeued,
                   cancelledAt, failures, ctlRotations, rotReleased, gen,
                   recorded, staleSignals, run_form>>

Launched == {w \in Workers : browser[w] # "None"}

WorkerLaunched(w) ==
    /\ wpc[w] = "launch"
    /\ w \notin cancelReq
    /\ LoopFree
    /\ AllStarted
    /\ Cardinality(Launched) < MaxLaunched
    /\ browser' = [browser EXCEPT ![w] = "open"]
    /\ NextIteration(w, input_queue, 0)
    /\ caughtAt' = 0
    /\ UNCHANGED <<conf, cancelled_workers_queue, progress_bar_event,
                   num_workers, mpc, cancelReq, cpc, count, threshold,
                   cCancel, ppc, progSteps, pCancel, rotating, running,
                   connectFails, settled, requeued, cancelledAt, failures,
                   ctlRotations, rotReleased, gen, recorded, staleSignals,
                   run_form>>

\* sync_workers_event.wait() returns after a pulse
WorkerGateResume(w) ==
    /\ wpc[w] = "gate"
    /\ w \in sync_workers_event.woken
    /\ w \notin cancelReq
    /\ LoopFree
    /\ sync_workers_event' = [sync_workers_event EXCEPT !.woken = @ \ {w}]
    /\ Dequeue(w, input_queue, 0)
    /\ rotReleased' = rotReleased \ {w}
    /\ caughtAt' = 0
    /\ UNCHANGED <<conf, cancelled_workers_queue, progress_bar_event,
                   num_workers, mpc, task_done, browser, cancelReq, cpc,
                   count, threshold, cCancel, ppc, progSteps, pCancel,
                   rotating, running, connectFails, settled, requeued,
                   cancelledAt, failures, ctlRotations, gen, recorded,
                   staleSignals, run_form>>

\* the getter future of input_queue.get() was resolved by a put
WorkerGetResume(w) ==
    /\ wpc[w] = "get"
    /\ w \in input_queue.ready
    /\ w \notin cancelReq
    /\ LoopFree
    /\ Dequeue(w, [input_queue EXCEPT !.ready = @ \ {w}], 0)
    /\ caughtAt' = 0
    /\ UNCHANGED <<conf, cancelled_workers_queue, sync_workers_event,
                   progress_bar_event, num_workers, mpc, task_done, browser,
                   cancelReq, cpc, count, threshold, cCancel, ppc, progSteps,
                   pCancel, rotating, running, connectFails, settled,
                   requeued, cancelledAt, failures, ctlRotations, rotReleased,
                   gen, recorded, staleSignals, run_form>>

\* await save_dict_to_csv(converted_data, output_file)  (line 202), for
\* each of the n detail buttons the loop of lines 167-220 got to and whose
\* header and parties were both read
Saved(w, n) ==
    recorded' = IF document[w] = NoDoc \/ n = 0 THEN recorded
                ELSE recorded \cup {document[w]}

\* the scrape steps completed  (lines 222-224, then the loop top)
WorkerScrapeOk(w) ==
    /\ wpc[w] = "scrape"
    /\ w \notin cancelReq
    /\ LoopFree
    /\ \E n \in 0..MaxRecords : Saved(w, n)
    /\ progress_bar_event' = SetProgress(progress_bar_event)
    /\ IF TaskDoneRaises(input_queue)
       THEN \* ValueError, caught at line 232, raised again at line 235
            /\ wpc' = [wpc EXCEPT ![w] = "crashed"]
            /\ Account(w, 2)
            /\ UNCHANGED <<input_queue, settled, task_done,
                           sync_workers_event, document>>
       ELSE /\ settled' = [settled EXCEPT ![document[w]] = @ + 1]
            /\ NextIteration(w, TaskDone(input_queue), 1)
    /\ caughtAt' = 0
    /\ UNCHANGED <<conf, cancelled_workers_queue, num_workers, mpc, browser,
                   cancelReq, cpc, count, threshold, cCancel, ppc, progSteps,
                   pCancel, rotating, running, connectFails, requeued,
                   cancelledAt, failures, ctlRotations, rotReleased, gen,
                   staleSignals, run_form>>

\* (mutant: no failure signal is put)
CancelledWorkersPutSkipped(n) == n

\* await cancelled_workers_queue.put(True)  (lines 230, 237, 243)
CancelledWorkersPut(n) == n + 1

\* except Exception  (lines 232-237), entered after d task_done() calls of
\* this step; then the loop top
ExceptionHandler(w, d) ==
    IF document[w] = NoDoc
    THEN /\ NextIteration(w, input_queue, d)
         /\ UNCHANGED cancelled_workers_queue
    ELSE IF TaskDoneRaises(input_queue)
    THEN \* ValueError at line 235 leaves the loop and the task
         /\ wpc' = [wpc EXCEPT ![w] = "crashed"]
         /\ Account(w, d + 1)
         /\ UNCHANGED <<input_queue, task_done, sync_workers_event,
                        document, cancelled_workers_queue>>
    ELSE /\ cancelled_workers_queue' =
                CancelledWorkersPut(cancelled_workers_queue)
         /\ NextIteration(w, PutNowait(TaskDone(input_queue), document[w],
                                       CancelledGetters), d + 1)

\* except TimeoutError  (lines 226-230); then the loop top
TimeoutHandler(w) ==
    IF document[w] = NoDoc
    THEN /\ NextIteration(w, input_queue, 0)
         /\ UNCHANGED cancelled_workers_queue
    ELSE IF TaskDoneRaises(input_queue)
    THEN \* ValueError at line 228 is caught at line 232
         ExceptionHandler(w, 1)
    ELSE /\ cancelled_workers_queue' =
                CancelledWorkersPut(cancelled_workers_queue)
         /\ NextIteration(w, PutNowait(TaskDone(input_queue), document[w],
                                       CancelledGetters), 1)

\* (mutant: without the catch-all clause of line 232)
CatchesTimeoutOnly(stage, error) ==
    IF stage = "steps" /\ error = "TimeoutError" THEN 226 ELSE 0

\* the except clause that catches error raised at stage: the inner try
\* (lines 105-224) holds the scrape steps only; new_context, new_page and
\* goto (lines 90-101) are under the outer try alone; 0 when no clause of
\* the loop body catches it
Catches(stage, error) ==
    IF stage = "steps" /\ error = "TimeoutError" THEN 226 ELSE 232

\* an exception no clause of the loop body catches leaves the while loop
\* and ends the task
Uncaught(w) ==
    /\ wpc' = [wpc EXCEPT ![w] = "crashed"]
    /\ Account(w, 0)
    /\ UNCHANGED <<input_queue, task_done, sync_workers_event, document,
                   cancelled_workers_queue, staleSignals, run_form>>

\* a scrape step raised TimeoutError or another Exception
WorkerScrapeFail(w) ==
    /\ wpc[w] = "scrape"
    /\ w \notin cancelReq
    /\ LoopFree
    /\ failures < MaxFailures
    /\ failures' = failures + 1
    /\ \E stage \in {"setup", "steps"}, error \in {"TimeoutError", "Exception"} :
           /\ caughtAt' = Catches(stage, error)
           /\ \E n \in 0..(IF stage = "steps" THEN MaxRecords ELSE 0) :
                  Saved(w, n)
           /\ CASE Catches(stage, error) = 226 -> TimeoutHandler(w)
                [] Catches(stage, error) = 232 -> ExceptionHandler(w, 0)
                [] OTHER -> Uncaught(w)
    /\ UNCHANGED <<conf, progress_bar_event, num_workers, mpc, browser,
                   cancelReq, cpc, count, threshold, cCancel, ppc, progSteps,
                   pCancel, rotating, running, connectFails, settled,
                   requeued, cancelledAt, ctlRotations, rotReleased, gen,
                   staleSignals, run_form>>

\* (mutant: the handler tests task_done instead of not task_done)
CancelRequeuesWhenSettled(w) ==
    /\ task_done[w] # "None"
    /\ task_done[w] = "True"
    /\ document[w] # NoDoc

\* the guard of the requeue in the cancellation handler  (line 240)
CancelRequeues(w) ==
    /\ task_done[w] # "None"
    /\ task_done[w] # "True"
    /\ document[w] # NoDoc

\* decrease_num_workers()  (lines 40-42)
DecreaseNumWorkers(n) == n - 1

\* the wake-up of w is already in the loop's ready queue
IsReady(w) ==
    \/ wpc[w] = "gate" /\ w \in sync_workers_event.woken
    \/ wpc[w] = "get" /\ w \in input_queue.ready

\* cancellations are delivered to the ready tasks first, then to the
\* suspended ones in the order of the task.cancel() calls
DeliveryTurn(w) ==
    \/ IsReady(w)
    \/ \A v \in cancelReq : ~IsReady(v) /\ v >= w

\* what Queue.get() does when it is cancelled
GetCancelled(w, q) ==
    LET q1 == [q EXCEPT !.getters = SelectSeq(@, LAMBDA g : g # w),
                        !.ready = @ \ {w}]
    IN IF wpc[w] = "get" /\ w \in q.ready /\ q1.items # <<>>
       THEN WakeupNext(q1, cancelReq \ {w})
       ELSE q1

\* CancelledError is raised at the await the worker is suspended on and
\* caught at line 239; the handler runs up to browser.close()
WorkerCancelled(w) ==
    /\ w \in cancelReq
    /\ wpc[w] \in {"new", "launch", "gate", "get", "scrape"}
    /\ LoopFree
    /\ DeliveryTurn(w)
    /\ cancelReq' = cancelReq \ {w}
    /\ cancelledAt' = [cancelledAt EXCEPT ![w] = wpc[w]]
    /\ \E n \in 0..(IF wpc[w] = "scrape" THEN MaxRecords ELSE 0) :
           Saved(w, n)
    /\ sync_workers_event' =
           [sync_workers_event EXCEPT !.waiters = @ \ {w}, !.woken = @ \ {w}]
    /\ LET q == GetCancelled(w, input_queue) IN
       IF wpc[w] = "new"
       THEN \* the coroutine never ran: no handler
            /\ wpc' = [wpc EXCEPT ![w] = "term"]
            /\ input_queue' = q
            /\ UNCHANGED <<unsettled, cancelled_workers_queue, requeued,
                           browser, num_workers>>
       ELSE IF CancelRequeues(w) /\ TaskDoneRaises(q)
       THEN \* ValueError leaves the handler at line 241
            /\ wpc' = [wpc EXCEPT ![w] = "crashed"]
            /\ input_queue' = q
            /\ Account(w, 1)
            /\ UNCHANGED <<cancelled_workers_queue, requeued, browser,
                           num_workers>>
       ELSE /\ IF CancelRequeues(w)
               THEN /\ input_queue' = PutNowait(TaskDone(q), document[w],
                                                cancelReq \ ({w} \cup q.ready))
                    /\ cancelled_workers_queue' =
                           CancelledWorkersPut(cancelled_workers_queue)
                    /\ Account(w, 1)
                    /\ requeued' = [requeued EXCEPT ![w] = @ + 1]
               ELSE /\ input_queue' = q
                    /\ UNCHANGED <<cancelled_workers_queue, unsettled,
                                   requeued>>
            /\ \E connected \in BOOLEAN :
                   IF browser[w] # "None" /\ connected
                   THEN /\ wpc' = [wpc EXCEPT ![w] = "closing"]
                        /\ UNCHANGED <<browser, num_workers>>
                   ELSE /\ wpc' = [wpc EXCEPT ![w] = "term"]
                        /\ browser' = [browser EXCEPT ![w] =
                               IF @ = "None" THEN @ ELSE "disconnected"]
                        /\ num_workers' = DecreaseNumWorkers(num_workers)
    /\ rotReleased' = rotReleased \ {w}
    /\ caughtAt' = 0
    /\ UNCHANGED <<conf, progress_bar_event, mpc, document, task_done, cpc,
                   count, threshold, cCancel, ppc, progSteps, pCancel,
                   rotating, running, connectFails, settled, failures,
                   ctlRotations, gen, staleSignals, run_form>>

\* browser.close() returned  (lines 246-248)
WorkerCloseDone(w) ==
    /\ wpc[w] = "closing"
    /\ LoopFree
    /\ wpc' = [wpc EXCEPT ![w] = "term"]
    /\ browser' = [browser EXCEPT ![w] = "closed"]
    /\ num_workers' = DecreaseNumWorkers(num_workers)
    /\ caughtAt' = 0
    /\ UNCHANGED <<conf, input_queue, cancelled_workers_queue,
                   sync_workers_event, progress_bar_event, mpc, document,
                   task_done, cancelReq, cpc, count, threshold, cCancel, ppc,
                   progSteps, pCancel, rotating, running, connectFails,
                   settled, unsettled, requeued, cancelledAt, failures,
                   ctlRotations, rotReleased, gen, recorded, staleSignals,
                   run_form>>

\* ------------------------------------------------------ specifications
Next ==
    \/ MainRotate
    \/ ConnectFail("main")
    \/ ConnectFail("ctl")
    \/ MainConnectOk
    \/ MainJoinReturn
    \/ MainDone
    \/ CtlStart
    \/ CtlWake
    \/ CtlConnectOk
    \/ CtlCancelled
    \/ ProgressStart
    \/ ProgressResume
    \/ ProgressCancelled
    \/ \E w \in Workers : WorkerStart(w)
    \/ \E w \in Workers : WorkerLaunched(w)
    \/ \E w \in Workers : WorkerGateResume(w)
    \/ \E w \in Workers : WorkerGetResume(w)
    \/ \E w \in Workers : WorkerScrapeOk(w)
    \/ \E w \in Workers : WorkerScrapeFail(w)
    \/ \E w \in Workers : WorkerCancelled(w)
    \/ \E w \in Workers : WorkerCloseDone(w)

Spec == Init /\ [][Next]_vars

SpecExample == InitExample /\ [][Next]_vars

\* the event loop does not stop while a task is ready to run or a call it
\* awaits is outstanding, and every awaited call (scrape step, launch,
\* browser.close, connect) comes back
FairSpec == InitTwoDocuments /\ [][Next]_vars /\ WF_vars(Next)

NextGenerator == GenPut \/ GenDone

NextRunForm ==
    \/ FormRespawnStart
    \/ FormRespawnGetResume
    \/ FormRespawnGathered
    \/ FormRespawnCancelled
    \/ FormProgressStart
    \/ FormProgressResume
    \/ FormMainIncomingJoined
    \/ FormMainProgressJoined
    \/ FormMainDone
    \/ \E k \in FormSlots : FormWorkerStart(k)
    \/ \E k \in FormSlots : FormWorkerScrapeOk(k)
    \/ \E k \in FormSlots : FormWorkerTimeout(k)
    \/ \E k \in FormSlots : FormWorkerClosed(k)
    \/ \E k \in FormSlots : FormWorkerSlept(k)
    \/ \E k \in FormSlots : FormWorkerError(k)
    \/ \E k \in FormSlots : FormWorkerCancelled(k)
    \/ \E k \in FormSlots : FormWorkerFinalized(k)

\* run_form.py started with the pool, a ratio and a range
InitRunForm ==
    \E r \in FormRatios, range \in 1..MaxRange : InitWith(SmallPool, r, range)

SpecRunForm == InitRunForm /\ [][NextRunForm]_vars

\* the event loop runs every task that is ready, and every awaited call of
\* run_form.py comes back
FairSpecRunForm == SpecRunForm /\ WF_vars(NextRunForm)

SpecGenerator == InitGenerator /\ [][NextGenerator]_vars

\* ------------------------------------------------------------ properties
\* the items main put on the queue  (app.py lines 94-96)
Generated ==
    {Item(Inputs.document_number_start, i, y) :
         i \in 0..(conf.document_range - 1), y \in Inputs.since..Inputs.until}

\* w holds a dequeued item whose delivery is not settled
Holding(w) == wpc[w] = "scrape"

Holders(i) == {w \in Workers : Holding(w) /\ document[w] = i}

\* the cancellation is delivered to w in this step
Delivered(w) == w \in cancelReq /\ w \notin cancelReq'

\* C1: input_queue.join() resolves only when every generated item has been
\* settled by a successful scrape exactly once: once main is past the join,
\* each generated item has exactly one successful settle.
C1_DrainOnlyWhenAllSettled ==
    mpc \in {"gather", "done"} => \A i \in Generated : settled[i] = 1

\* C2: no item is lost or duplicated: in every reachable state each
\* generated item is in exactly one place, pending in the queue, held in
\* flight by exactly one worker, or settled by a successful scrape.
C2_ItemInExactlyOnePlace ==
    \A i \in Generated :
        Count(input_queue.items, i) + Cardinality(Holders(i)) + settled[i] = 1

\* C3: a worker never makes more task_done() calls than it has completed
\* get() calls, on any path.
C3_SettlesAtMostDequeues == \A w \in Workers : unsettled[w] >= 0

\* C4: a worker cancelled mid-scrape, holding an unsettled item, puts that
\* item back exactly once: its handler appends the item once to the queue,
\* does not fail, and the worker ends with exactly one requeue.
C4_CancelMidScrapeRequeuesOnce ==
    [][\A w \in Workers :
          /\ (Delivered(w) /\ Holding(w)) =>
                 /\ wpc'[w] \in {"closing", "term"}
                 /\ requeued'[w] = 1
                 /\ input_queue'.items =
                        Append(input_queue.items, document[w])
          /\ (cancelledAt'[w] = "scrape" /\ wpc'[w] = "term") =>
                 requeued'[w] = 1]_vars

C4_Witness ==
    \E w \in Workers :
        cancelledAt[w] = "scrape" /\ wpc[w] = "term" /\ requeued[w] = 1

\* C5: a worker cancelled while suspended on the gate wait or on the queue
\* wait holds no unsettled item: that cancellation makes no enqueue, no
\* settle and no failure signal.
C5_IdleCancelChangesNothing ==
    [][\A w \in Workers :
          (Delivered(w) /\ wpc[w] \in {"gate", "get"}) =>
              /\ input_queue'.items = input_queue.items
              /\ input_queue'.unfinished = input_queue.unfinished
              /\ cancelled_workers_queue' = cancelled_workers_queue
              /\ unsettled'[w] = unsettled[w]]_vars

\* C6: the cancellation handler of a started worker always runs to its
\* end: the worker never ends with an error raised inside the handler, and
\* when main has finished every worker is terminated, has released its
\* browser and is deregistered.
C6_HandlerCompletes ==
    /\ \A w \in Workers :
           cancelledAt[w] \notin {"none", "new"} =>
               wpc[w] \in {"closing", "term"}
    /\ mpc = "done" =>
           /\ \A w \in Workers : wpc[w] = "term" /\ browser[w] # "open"
           /\ num_workers = 0

\* C7: at most one rotate_vpn call is in progress in any reachable state.
C7_OneRotationInFlight == rotating.main + rotating.ctl <= 1

C7_Witness == rotating.ctl = 1 /\ cpc = "rot" /\ ctlRotations >= 2

\* C8: with 5 workers and ratio 0.6 the controller starts with count 5 and
\* threshold ceil(5 * 0.6) = 3; it begins a rotation exactly when it finds
\* count < threshold, which is when count is 2, never while count is 5, 4
\* or 3, and each time it begins exactly one rotation and resets count to 5.
C8_ThresholdExample ==
    [][/\ (cpc = "new" /\ cpc' \notin {"new", "term"}) =>
              /\ threshold' = Ceil(num_workers, conf.threshold)
              /\ threshold' = 3
              /\ count' = num_workers
              /\ count' = 5
       /\ (ctlRotations' # ctlRotations) =>
              /\ count < threshold
              /\ count = 2
              /\ ctlRotations' = ctlRotations + 1
              /\ count' = 5 /\ threshold' = 3
       /\ (cpc = "sleep" /\ count < threshold) =>
              /\ sync_workers_event'.woken \subseteq sync_workers_event.woken
              /\ \/ cpc' = "sleep" /\ count' = count
                 \/ cpc' = "term"
                 \/ cpc' = "rot" /\ ctlRotations' = ctlRotations + 1]_vars

C8_Witness ==
    /\ conf.num_workers = 5
    /\ cpc = "rot"
    /\ ctlRotations = 1
    /\ count = 5
    /\ threshold = 3

\* C9: while the controller is inside rotate_vpn no worker completes an
\* input_queue.get(): no item leaves the queue and no worker starts to
\* hold an item, also not a worker whose getter was already resolved.
C9_NoDequeueDuringRotation ==
    [][cpc = "rot" =>
          /\ Len(input_queue'.items) >= Len(input_queue.items)
          /\ \A w \in Workers : Holding(w)' => Holding(w)]_vars

C9_Witness ==
    /\ cpc = "rot"
    /\ input_queue.items # <<>>
    /\ \E w \in Workers : wpc[w] = "get" /\ w \in input_queue.ready

\* C10: when the controller issues the rotation call no worker holds a
\* dequeued item whose delivery is not settled.
C10_QuiescedBeforeRotation ==
    cpc = "rot" => \A w \in Workers : ~Holding(w)

\* w leaves the gate wait in this step after the pulse that followed a
\* rotation had released it
LeavesGate(w) == w \in rotReleased /\ w \notin rotReleased'

\* C11 (as stated): every worker that waits on sync_workers_event when
\* rotate_vpn returns passes the gate wait: once released by the pulse
\* that follows the rotation it leaves the wait only by going on to
\* input_queue.get().
C11_ReleasedPassTheGate ==
    [][\A w \in Workers : LeavesGate(w) => wpc'[w] \in {"get", "scrape"}]_vars

\* C11 (amended): rotate_vpn returns into a pulse of the same step, which
\* releases every worker waiting on the gate at that moment; under fair
\* scheduling a released worker eventually leaves the gate wait, either by
\* going on to input_queue.get() or because main's task.cancel() reached
\* it at the gate wait first.
C11_ReleasedPassOrCancelled ==
    /\ \A w \in 1..SmallPool : (w \in rotReleased) ~> (w \notin rotReleased)
    /\ [][/\ (cpc = "rot" /\ cpc' # "rot") =>
                  /\ cpc' = "sleep"
                  /\ sync_workers_event'.waiters = {}
                  /\ sync_workers_event'.woken =
                         sync_workers_event.woken
                             \cup sync_workers_event.waiters
                  /\ rotReleased' =
                         rotReleased \cup sync_workers_event.waiters
           /\ \A w \in Workers :
                  LeavesGate(w) =>
                      \/ wpc'[w] \in {"get", "scrape"}
                      \/ Delivered(w) /\ cancelledAt'[w] = "gate"]_vars

C11_Witness ==
    /\ ctlRotations >= 1
    /\ cpc = "sleep"
    /\ Cardinality(rotReleased) >= 2
    /\ rotReleased \subseteq sync_workers_event.woken

\* w's scrape fails in this step
Fails(w) == wpc[w] = "scrape" /\ failures' = failures + 1 /\ wpc'[w] # "scrape"

\* C12: a failed scrape, caught as TimeoutError (line 226) or by the
\* catch-all (line 232), is handled the same way: the item is appended to
\* the queue once and unchanged, the delivery is settled by one task_done()
\* call, one failure signal is put, the progress event and the successful
\* settles are untouched, and the worker is back at the top of its loop.
C12_FailureRequeuesAndContinues ==
    [][\A w \in Workers :
          Fails(w) =>
              /\ caughtAt' \in {226, 232}
              /\ input_queue'.items = Append(input_queue.items, document[w])
              /\ input_queue'.unfinished = input_queue.unfinished
              /\ unsettled'[w] = unsettled[w] - 1
              /\ cancelled_workers_queue' = cancelled_workers_queue + 1
              /\ progress_bar_event' = progress_bar_event
              /\ progSteps' = progSteps
              /\ settled' = settled
              /\ document'[w] = document[w]
              /\ wpc'[w] = "gate"
              /\ task_done'[w] = "False"]_vars

C12_Witness ==
    /\ caughtAt = 226
    /\ failures = 2
    /\ cancelled_workers_queue = 2
    /\ mpc = "join"
    /\ \E w \in Workers : wpc[w] = "gate" /\ unsettled[w] = 0

\* the worker tasks that were created and have not finished
LiveWorkers ==
    {w \in Workers :
         wpc[w] \in {"new", "launch", "gate", "get", "scrape", "closing"}}

\* C13: in every reachable state the registration read by get_num_workers()
\* equals the number of live worker tasks.
C13_RegistrationMatchesLive == num_workers = Cardinality(LiveWorkers)

\* the item at place k of the year-major, offset-minor order
ItemAt(g, k) ==
    Item(g.start, (k - 1) % g.range, g.since + ((k - 1) \div g.range))

\* C14: when the loops of lines 94-96 are over the queue holds, in this
\* order, (start + offset, year) for each year from since to now and each
\* offset in [0, range): range * (now - since + 1) items, no two equal, as
\* many unfinished tasks, the same sequence Generate gives; and for
\* range 3, years 2020..2021, start 100 it is the sequence of the example.
C14_GeneratorOrder ==
    (mpc = "start") =>
        LET q == input_queue.items IN
        /\ Len(q) = gen.range * (gen.now - gen.since + 1)
        /\ \A k \in 1..Len(q) : q[k] = ItemAt(gen, k)
        /\ \A j, k \in 1..Len(q) : j # k => q[j] # q[k]
        /\ input_queue.unfinished = Len(q)
        /\ q = Generate(gen.start, gen.range, gen.since, gen.now)
        /\ (gen.start = 100 /\ gen.range = 3
                /\ gen.since = 2020 /\ gen.now = 2021) =>
               q = << <<(<<"1", "0", "0">>), (<<"2", "0", "2", "0">>)>>,
                      <<(<<"1", "0", "1">>), (<<"2", "0", "2", "0">>)>>,
                      <<(<<"1", "0", "2">>), (<<"2", "0", "2", "0">>)>>,
                      <<(<<"1", "0", "0">>), (<<"2", "0", "2", "1">>)>>,
                      <<(<<"1", "0", "1">>), (<<"2", "0", "2", "1">>)>>,
                      <<(<<"1", "0", "2">>), (<<"2", "0", "2", "1">>)>> >>

C14_Witness ==
    /\ mpc = "start"
    /\ gen.start = 100 /\ gen.range = 3 /\ gen.since = 2020 /\ gen.now = 2021
    /\ Len(input_queue.items) = 6
    /\ input_queue.items[4] = <<Str(100), Str(2021)>>

RECURSIVE SumOver(_, _)
SumOver(f, S) ==
    IF S = {} THEN 0
    ELSE LET x == CHOOSE y \in S : TRUE IN f[x] + SumOver(f, S \ {x})

\* the successful settles so far (lines 222-224 were run)
Successes == SumOver(settled, Items)

\* progress_bar is suspended on event.wait() with nothing left to observe
ProgressIdle ==
    /\ ppc = "wait"
    /\ ~progress_bar_event.value
    /\ ~progress_bar_event.woken

\* C15: no progress signal is merged or lost: whenever the progress task
\* has observed all there is (it waits on a cleared event with no wake-up
\* pending) it has advanced one step per successful settle.
C15_OneStepPerSettle == ProgressIdle => progSteps = Successes

\* a task that is not over has an undelivered task.cancel()
AllCancelled ==
    /\ cancelReq = {w \in Workers : ~WorkerOver(w)}
    /\ cCancel = (cpc # "term")
    /\ pCancel = (ppc \notin {"term", "finished"})

\* C16: when input_queue.join() returns main cancels every task that is
\* not over in that step; gather then waits for all of them: main is done
\* only when every task is over, an exception a task ended with (also the
\* ValueError of a cancellation handler) never reaches main, and under
\* fair scheduling main, once in gather, is eventually done.
C16_TeardownCompletes ==
    /\ [][(mpc = "join" /\ mpc' # "join") =>
              (mpc' = "gather" /\ AllCancelled')]_vars
    /\ [](mpc = "done" =>
              TasksOver /\ cancelReq = {} /\ ~cCancel /\ ~pCancel)
    /\ [](mpc # "raised")
    /\ (mpc = "gather") ~> (mpc = "done")

C16_Witness ==
    /\ mpc = "done"
    /\ \E w \in Workers : wpc[w] = "crashed"
    /\ \E w \in Workers : wpc[w] = "term"

\* rotate_vpn returns to caller t in this step
RotationReturns(t) == rotating'[t] < rotating[t]

\* C17: a failed connect is not propagated: the step leaves the call in
\* progress and its caller where it was, so another connect follows, also
\* after the last failure the bound allows; rotate_vpn returns only in a
\* step in which connect succeeded, and neither caller is ever ended by an
\* exception of the rotation.
C17_RotationRetriesUntilConnected ==
    /\ [][\A t \in {"main", "ctl"} :
             /\ (connectFails' > connectFails /\ rotating[t] > 0) =>
                    /\ rotating' = rotating
                    /\ running' = running
                    /\ mpc' = mpc
                    /\ cpc' = cpc
             /\ RotationReturns(t) => connectFails' = connectFails]_vars
    /\ [](mpc = "rot" => rotating.main = 1 /\ running = "main")
    /\ [](cpc = "rot" => rotating.ctl = 1 /\ running = "ctl")
    /\ [](mpc # "raised")
    /\ []((cpc = "term") => (mpc \in {"gather", "done"}))

C17_Witness ==
    /\ connectFails >= 1
    /\ ctlRotations = 0
    /\ mpc = "join"
    /\ rotating.main = 0

\* C18: the rotation does not stall the scheduler: while the controller is
\* inside rotate_vpn a worker whose scrape is under way can complete a
\* scrape step and a progress task whose wake-up is pending can run.
C18_OthersRunDuringRotation ==
    rotating.ctl > 0 =>
        /\ \A w \in Workers :
               (Holding(w) /\ w \notin cancelReq) =>
                   ENABLED WorkerScrapeOk(w)
        /\ (ppc = "wait" /\ progress_bar_event.woken /\ ~pCancel) =>
               ENABLED ProgressResume

\* C19: an item that has a successful settle has at least one record in
\* the output.
C19_SettledItemHasRecord ==
    \A i \in Items : settled[i] >= 1 => i \in recorded

\* a scrape attempt of w comes to its outcome: success, TimeoutError or
\* another error, at the set-up or in the steps
ScrapeOutcome(w) == wpc[w] = "scrape" /\ w \notin cancelReq /\ wpc'[w] # "scrape"

\* C20: no outcome of a scrape ends the worker task (it is back at the top
\* of its loop), and from the creation of the tasks until main cancels them
\* the number of live worker tasks is conf.num_workers.
C20_WorkersLiveUntilShutdown ==
    /\ [][\A w \in Workers : ScrapeOutcome(w) => wpc'[w] = "gate"]_vars
    /\ [](mpc = "join" => Cardinality(LiveWorkers) = conf.num_workers)

\* both workers are live at the join after a success and after failures
\* caught by each of the two clauses
C20_Witness ==
    /\ mpc = "join"
    /\ failures = MaxFailures
    /\ caughtAt = 232
    /\ \E i \in Items : settled[i] >= 1
    /\ Cardinality(LiveWorkers) = SmallPool

\* C21: every generated item is eventually settled by a successful scrape
\* and main eventually reaches its end, the failures of an item and of
\* connect being finitely many (MaxFailures, MaxConnectFails).
C21_EveryItemEventuallySettled ==
    /\ <>(\A i \in Generated : settled[i] >= 1)
    /\ <>(mpc = "done")

\* the poll of lines 57-60 takes a failure signal from the queue
ConsumesSignal == cancelled_workers_queue' = cancelled_workers_queue - 1

\* C22: count is decremented only by a failure signal that was put after
\* the last reset of count and threshold (lines 64-65): a signal that was
\* already in the queue at the reset does not lower count in the new round.
C22_OnlyFreshFailuresCount ==
    [][(ConsumesSignal /\ count' = count - 1) => staleSignals = 0]_vars

\* sync_workers runs one poll of the loop of lines 54-63 after its sleep
Polls == CtlWake /\ cpc' = "sleep"

\* C23: a poll lowers count by the number of failure signals put since the
\* poll before it, one decrement per signal, and leaves none of them in the
\* queue.
C23_PollCountsEveryFailure ==
    [][Polls => /\ count' = count - cancelled_workers_queue
                /\ cancelled_workers_queue' = 0]_vars

\* the workers whose wait on the gate is resolved in this step
Released == sync_workers_event'.woken \ sync_workers_event.woken

\* w completes input_queue.get() in this step  (line 88)
CompletesGet(w) ==
    /\ wpc'[w] = "scrape"
    /\ wpc[w] = "scrape" => (WorkerScrapeOk(w) \/ WorkerScrapeFail(w))

\* w comes to the gate wait of line 87 in this step
ReachesGate(w) == wpc[w] # "gate" /\ wpc'[w] = "gate"

\* w leaves the gate wait for input_queue.get()
PassesGate(w) == wpc[w] = "gate" /\ wpc'[w] \in {"get", "scrape"}

\* C24: the gate is closed whenever a task is suspended; only a step of
\* sync_workers releases workers, and it releases exactly those waiting on
\* the gate at that moment; a worker that comes to the gate afterwards is
\* not released; a worker passes the gate only by using up its release,
\* and completes a get() only after passing the gate: at most one dequeue
\* per worker and pulse.
C24_OnePulsePerPoll ==
    /\ [](~sync_workers_event.value)
    /\ [][Released # {} =>
              /\ CtlStart \/ CtlWake \/ CtlConnectOk
              /\ Released = sync_workers_event.waiters
              /\ sync_workers_event'.waiters = {}]_vars
    /\ [][\A w \in Workers :
              /\ ReachesGate(w) =>
                     /\ w \notin sync_workers_event'.woken
                     /\ w \in sync_workers_event'.waiters
              /\ PassesGate(w) =>
                     /\ w \in sync_workers_event.woken
                     /\ w \notin sync_workers_event'.woken
              /\ CompletesGet(w) =>
                     \/ PassesGate(w)
                     \/ wpc[w] = "get"
              /\ (wpc[w] # "get" /\ wpc'[w] = "get") => PassesGate(w)]_vars

\* after a failure one worker is released by a pulse and the other, which
\* came to the gate after that pulse, is not
C24_Witness ==
    /\ failures >= 1
    /\ mpc = "join"
    /\ \E w, v \in Workers :
           /\ wpc[w] = "gate" /\ w \in sync_workers_event.woken
           /\ wpc[v] = "gate" /\ v \in sync_workers_event.waiters
           /\ unsettled[v] = 0 /\ document[v] # NoDoc

\* sync_workers begins a rotation in this step  (lines 64-66)
BeginsRotation == ctlRotations' = ctlRotations + 1

\* C25: for every ratio of [0, 1] the threshold is at most the count it is
\* computed from, so after each reset count >= threshold; sync_workers
\* begins a rotation only from count < threshold, and between the reset
\* and that moment count changes only by the decrement of a consumed
\* failure signal: at least one signal is consumed between two
\* consecutive rotations.
C25_NoRotationWithoutFailure ==
    /\ [](\A n \in 0..DefaultPool, r \in UnitRatios : Ceil(n, r) <= n)
    /\ [](cpc = "rot" => count >= threshold)
    /\ [][/\ BeginsRotation =>
                  /\ cpc = "sleep"
                  /\ count < threshold
                  /\ count' >= threshold'
          /\ (cpc \in {"sleep", "rot"} /\ ~BeginsRotation) =>
                  /\ threshold' = threshold
                  /\ count' = count \/ (ConsumesSignal /\ count' = count - 1)
         ]_vars

\* the second rotation of sync_workers has begun, count and threshold
\* having been reset twice
C25_Witness ==
    /\ ctlRotations = 2
    /\ cpc = "rot"
    /\ count = num_workers
    /\ count >= threshold
    /\ mpc = "join"
    /\ failures >= 2

\* the workers that hold a dequeued item in flight
InFlight == {w \in Workers : Holding(w)}

\* C26: whenever the tasks are suspended, the queue's count of unfinished
\* deliveries equals the number of items pending in the queue plus the
\* number of items the workers hold in flight.
C26_UnfinishedMatchesItems ==
    input_queue.unfinished = Len(input_queue.items) + Cardinality(InFlight)

\* no worker, controller or progress task exists
NoTask ==
    /\ \A w \in Workers : wpc[w] = "none"
    /\ cpc = "none"
    /\ ppc = "none"

\* C27: until main's first rotate_vpn call has returned no task exists, no
\* item has left the queue and no delivery is settled; the tasks are
\* created in the step in which that call returns after a connect that
\* succeeded.
C27_NoTaskBeforeFirstRotation ==
    /\ [](mpc \in {"start", "rot"} =>
              /\ NoTask
              /\ \A w \in Workers : document[w] = NoDoc
              /\ input_queue.items =
                     Generate(Inputs.document_number_start,
                              conf.document_range, Inputs.since, Inputs.until)
              /\ input_queue.unfinished = Len(input_queue.items))
    /\ [][(NoTask /\ ~NoTask') =>
              /\ mpc = "rot"
              /\ rotating.main = 1
              /\ rotating'.main = 0
              /\ connectFails' = connectFails]_vars

\* main is still inside the first rotation after a connect that failed
C27_Witness ==
    /\ mpc = "rot"
    /\ rotating.main = 1
    /\ connectFails >= 1
    /\ NoTask

\* ------------------------------------------------ run_form.py: properties
FormGenerated ==
    {FormItem(Inputs.document_number_start, i, y) :
         i \in 0..(run_form.document_range - 1),
         y \in Inputs.since..Inputs.until}

FormPending(i) ==
    \E n \in DOMAIN run_form.incoming_queue.items :
        run_form.incoming_queue.items[n] = i

\* C28: in run_form.py an item whose scrape timed out is not dropped: when
\* the worker has finished its timeout handling (it sleeps before taking the
\* next item), the item is back in incoming_queue or its delivery is
\* settled, so that incoming_queue.join() can still resolve.  No item has two
\* copies, so that an item which is neither pending nor being scraped is
\* never settled later.
C28_TimedOutItemNotDropped ==
    \A k \in FormSlots :
        run_form.workers[k] = "sleep" =>
            \/ FormPending(run_form.held[k])
            \/ run_form.settled[run_form.held[k]] >= 1

\* respawn_workers has rotated the identity and created the new workers
FormRotates == run_form'.generation = run_form.generation + 1

\* C29: in run_form.py's respawn_workers a rotation happens once per batch
\* of failures: every rotation follows at least one failure signal received
\* since the previous rotation, and after the respawn the count starts again
\* from num_workers (consumed is the number of signals taken since the last
\* rotation).
C29_RotationOncePerBatch ==
    [][FormRotates =>
          /\ run_form.consumed >= 1
          /\ run_form'.count + run_form'.consumed = run_form.num_workers
      ]_vars

\* C30: run_form.py's main terminates, also when failures occurred: the
\* number of failing scrapes is bounded (MaxFormFailures), so that every
\* scrape attempted afterwards succeeds; the three joins resolve, main
\* cancels and awaits the tasks and ends, and no worker task is left alive.
C30_MainTerminates ==
    <>(/\ run_form.main = "done"
       /\ \A k \in FormSlots : FormOver(run_form.workers[k]))

====
